---- MODULE Spec2Model ----
(***************************************************************************)
(* Model of src/downloader.py: one call of Downloader.download, with its   *)
(* size and range probes, the single-stream fetch, the ranged fetch on a   *)
(* thread pool, the merge of the part files, the cleanup, and the SIGINT   *)
(* handler that sets the cancellation flag of the ProgressTracker.         *)
(*                                                                         *)
(* The remote resource is a sequence of SrcSize bytes; byte k (0-based)    *)
(* has the value k, so that a file's content records which offsets it      *)
(* holds and in which order.  A 206 response carries exactly the bytes of  *)
(* the requested range that the resource has (none for a range whose end   *)
(* is below its start).                                                    *)
(***************************************************************************)
EXTENDS Integers, Sequences, FiniteSets, TLC

\* ---------------------------------------------------------------- bounds
MaxThreads == 2
MaxSize == 3
MaxInterrupts == 3
ChunkSize == 2
PlanMaxThreads == 16
PlanMaxSize == 9
MaxCalls == 2
TailSize == 5

VARIABLES
    pc,               \* position of the thread that runs download()
    num_threads,      \* DownloadConfig.num_threads
    srcSize,          \* true size of the remote resource
    origHandler,      \* the SIGINT handler installed before the call
    callback,         \* the progress callback: "returns", or "raises" (it may)
    sigHandler,       \* the SIGINT handler installed now: "orig" or "ours"
    interrupts,       \* number of SIGINTs delivered so far
    trackerSet,       \* self._progress_tracker is not None
    total_bytes,      \* ProgressTracker.total_bytes
    downloaded_bytes, \* ProgressTracker.downloaded_bytes
    cancelled,        \* ProgressTracker._cancelled
    sizeKnown,        \* the size probe returned a positive Content-Length
    supports_range,   \* result of _check_range_support
    mode,             \* "none", "single" or "multi"
    sbody,            \* single-stream: bytes of the response not yet iterated
    ranges,           \* the plan: part_num -> [start, end]
    wpc,              \* per ranged worker: position in _download_part
    wres,             \* per ranged worker: return value of _download_part
    wstatus,          \* per ranged worker: status code of its response (0: none)
    wbody,            \* per ranged worker: bytes of the response not yet iterated
    wwrote,           \* per ranged worker: number of bytes it wrote
    idx,              \* loop index of the wait loop, the merge and the cleanup
    poolOutcome,      \* how the with-block of the executor is being left
    dest,             \* the file at save_path
    parts,            \* part_num -> the file at save_path.part<part_num>
    success,          \* return value of the fetch function
    inHandler,        \* download() is in its except KeyboardInterrupt clause
    escaping,         \* a KeyboardInterrupt is leaving download()
    finalSnapshot,    \* downloaded_bytes given to ProgressDisplay.finish (-1: none)
    tokenBeforeWorkers, \* the flag was set before any fetch worker had started
    tokenSetInRanged, \* the flag was set while the ranged fetch was under way
    requested,        \* number of GET requests issued by the fetch workers
    cancelCalls,      \* number of calls of cancel() on this download's tracker
    mon,              \* position of the progress monitoring thread
    cbRaised,         \* invocations of the progress callback that raised
    calls,            \* outcomes of the earlier download() calls on this Downloader
    extRemoved,       \* part file removed by another process (-1: none)
    file_size,        \* what _get_file_size returned to download
    probes            \* responses to the requests of _get_file_size, when recorded

vars == << pc, num_threads, srcSize, origHandler, callback, sigHandler, interrupts,
           trackerSet, total_bytes, downloaded_bytes, cancelled, sizeKnown,
           supports_range, mode, sbody, ranges, wpc, wres, wstatus, wbody,
           wwrote, idx, poolOutcome, dest, parts, success, inHandler, escaping,
           finalSnapshot, tokenBeforeWorkers, tokenSetInRanged, requested,
           cancelCalls, mon, cbRaised, calls, extRemoved, file_size, probes >>

\* ------------------------------------------------------------ files, bytes
NoFile == [exists |-> FALSE, data |-> << >>]

File(d) == [exists |-> TRUE, data |-> d]

\* The bytes of offsets lo..hi (empty when hi < lo).
Bytes(lo, hi) == [k \in 1..(hi - lo + 1) |-> lo + k - 1]

Min(a, b) == IF a < b THEN a ELSE b

\* The whole resource of size S.
Source(S) == Bytes(0, S - 1)

\* Body of a 206 response to "Range: bytes=start-end" on a resource of size S.
RangeBody(S, start, end) == Bytes(start, Min(end, S - 1))

Workers == 0..(num_threads - 1)

\* ------------------------------------------------------------ pure helpers
\* Mutant of Ranges: the last range is cut like the others, the remainder of
\* the division is dropped.
RangesNoRemainder(S, N) ==
    LET part_size == S \div N
    IN  [i \in 0..(N - 1) |->
            [start |-> i * part_size, end |-> i * part_size + part_size - 1]]

\* Mutant of Ranges: every end but the last is one byte too far.
RangesOffByOne(S, N) ==
    LET part_size == S \div N
    IN  [i \in 0..(N - 1) |->
            [start |-> i * part_size,
             end   |-> IF i < N - 1 THEN i * part_size + part_size ELSE S - 1]]

\* _download_multithread, lines 452-463: the ranges of the N threads.
Ranges(S, N) ==
    LET part_size == S \div N
    IN  [i \in 0..(N - 1) |->
            LET start == i * part_size
            IN  [start |-> start,
                 end   |-> IF i < N - 1 THEN start + part_size - 1 ELSE S - 1]]

\* Mutant of Update: the count is assigned, not incremented.
UpdateAssign(d, bytes_count) == bytes_count

\* Mutant of Update: the count is capped at total_bytes.
UpdateCapped(d, bytes_count) == Min(d + bytes_count, total_bytes)

\* Mutant of Update: a full chunk is counted whatever the length written.
UpdateFullChunk(d, bytes_count) == d + ChunkSize

\* ProgressTracker.update, lines 152-154: the new value of downloaded_bytes.
Update(d, bytes_count) == d + bytes_count

\* The next chunk that iter_content yields from a body.
Chunk(body) == SubSeq(body, 1, Min(ChunkSize, Len(body)))

\* What is left of a body after that chunk.
Rest(body) == SubSeq(body, Min(ChunkSize, Len(body)) + 1, Len(body))

\* download, lines 298-300: the size given to the ProgressTracker.
TrackerSize(size) == IF size <= 0 THEN 1 ELSE size

\* Mutant of UseMultithread: the result of the range probe is ignored.
UseMultithreadAnyServer(range_ok, n) == n > 1

\* download, line 313.
UseMultithread(range_ok, n) == range_ok /\ n > 1

\* _signal_handler, line 258, and download, line 367: "if self._original_sigint_handler".
\* signal.SIG_DFL is the integer 0 and is falsy; SIG_IGN (1) and a function are truthy.
Truthy(h) == h # "SIG_DFL"

\* Mutant of IsCancelled: the flag is never seen.
IsCancelledNever == FALSE

\* ProgressTracker.is_cancelled, lines 176-178.
IsCancelled == cancelled

\* ------------------------------------------------------------------- Init
InitSizes(sizes) ==
    /\ pc = "install"
    /\ num_threads \in 1..MaxThreads
    /\ srcSize \in sizes
    /\ origHandler \in {"default_int_handler", "SIG_DFL", "SIG_IGN"}
    /\ sigHandler = "orig"
    /\ interrupts = 0
    /\ trackerSet = FALSE
    /\ total_bytes = 0
    /\ downloaded_bytes = 0
    /\ cancelled = FALSE
    /\ sizeKnown = FALSE
    /\ supports_range = FALSE
    /\ mode = "none"
    /\ sbody = << >>
    /\ ranges = << >>
    /\ wpc = [i \in Workers |-> "idle"]
    /\ wres = [i \in Workers |-> FALSE]
    /\ wstatus = [i \in Workers |-> 0]
    /\ wbody = [i \in Workers |-> << >>]
    /\ wwrote = [i \in Workers |-> 0]
    /\ idx = 0
    /\ poolOutcome = "none"
    /\ dest = NoFile
    /\ parts = [i \in Workers |-> NoFile]
    /\ success = FALSE
    /\ inHandler = FALSE
    /\ escaping = FALSE
    /\ finalSnapshot = -1
    /\ tokenBeforeWorkers = FALSE
    /\ tokenSetInRanged = FALSE
    /\ requested = 0
    /\ cancelCalls = 0
    /\ mon = "idle"
    /\ cbRaised = {}
    /\ calls = << >>
    /\ extRemoved = -1
    /\ file_size = 0
    /\ probes = << >>

\* Groups of variables left alone.
configVars == << num_threads, srcSize, origHandler, callback >>

\* The state before download() is called, for a resource of 1..MaxSize bytes.
InitDownload == InitSizes(1..MaxSize)

\* A download whose progress callback never raises.
Init ==
    /\ InitDownload
    /\ callback = "returns"
sigVars == << sigHandler, interrupts >>
workerVars == << wpc, wres, wstatus, wbody, wwrote >>
histVars == << finalSnapshot, tokenBeforeWorkers, tokenSetInRanged >>
auxVars == << cancelCalls, mon, cbRaised, calls, extRemoved, file_size,
             probes >>

\* ------------------------------------------------------- download: probing
\* download, line 284: install the handler, remember the previous one,
\* which is _signal_handler itself when an earlier call left it installed.
Install ==
    /\ pc = "install"
    /\ origHandler' = IF sigHandler = "ours" THEN "_signal_handler"
                      ELSE origHandler
    /\ sigHandler' = "ours"
    /\ pc' = "size_head"
    /\ UNCHANGED << num_threads, srcSize, callback, interrupts, trackerSet,
                    total_bytes,
                    downloaded_bytes, cancelled, sizeKnown, supports_range, mode,
                    sbody, ranges, workerVars, idx, poolOutcome, dest, parts,
                    success, inHandler, escaping, histVars, auxVars, requested >>

\* ProgressTracker.__init__, line 150: a new tracker is not cancelled,
\* whatever became of the tracker of an earlier call.
NewTrackerCancelledKept == cancelled
NewTrackerCancelled == FALSE

\* download, lines 298-309, after _get_file_size returned file_size: the
\* ProgressTracker is created and stored for the signal handler.
CreateTracker(size) ==
    /\ file_size' = size
    /\ sizeKnown' = (size > 0)
    /\ total_bytes' = TrackerSize(size)
    /\ downloaded_bytes' = 0
    /\ cancelled' = NewTrackerCancelled
    /\ cancelCalls' = 0
    /\ trackerSet' = TRUE
    /\ pc' = "range_probe"

\* _get_file_size, first method (requests.head): a Content-Length ends the
\* probe; none, or a failed request, leads to the second method.
SizeHead ==
    /\ pc = "size_head"
    /\ \E have \in BOOLEAN :
          IF have THEN CreateTracker(srcSize)
          ELSE /\ pc' = "size_get"
               /\ UNCHANGED << sizeKnown, total_bytes, downloaded_bytes,
                               cancelled, cancelCalls, trackerSet, file_size >>
    /\ UNCHANGED << configVars, sigVars, supports_range, mode, sbody, ranges,
                    workerVars, idx, poolOutcome, dest, parts, success,
                    inHandler, escaping, histVars, mon, cbRaised, calls,
                    extRemoved, probes, requested >>

\* _get_file_size, second method (streamed requests.get); 0 when it yields nothing.
SizeGet ==
    /\ pc = "size_get"
    /\ \E have \in BOOLEAN : CreateTracker(IF have THEN srcSize ELSE 0)
    /\ UNCHANGED << configVars, sigVars, supports_range, mode, sbody, ranges,
                    workerVars, idx, poolOutcome, dest, parts, success,
                    inHandler, escaping, histVars, mon, cbRaised, calls,
                    extRemoved, probes, requested >>

\* download, lines 312-337, after _check_range_support returned range_ok:
\* the mode is chosen, the monitoring thread is started and the fetch
\* function is entered.
ChooseMode(range_ok) ==
    /\ supports_range' = range_ok
    /\ mon' = "loop"
    /\ mode' = IF UseMultithread(range_ok, num_threads) THEN "multi" ELSE "single"
    /\ pc' = IF UseMultithread(range_ok, num_threads) THEN "submit" ELSE "s_precheck"

\* _check_range_support: the server's answer to the HEAD with Range: bytes=0-1.
RangeProbe ==
    /\ pc = "range_probe"
    /\ \E range_ok \in BOOLEAN : ChooseMode(range_ok)
    /\ UNCHANGED << configVars, sigVars, trackerSet, total_bytes,
                    downloaded_bytes, cancelled, sizeKnown, sbody, ranges,
                    workerVars, idx, poolOutcome, dest, parts, success,
                    inHandler, escaping, histVars, cancelCalls, cbRaised,
                    calls, extRemoved, probes, file_size,
                    requested >>

\* ------------------------------------------- the lock of the tracker
\* Mutant of LockHolder: the monitoring thread keeps the lock while the
\* snapshot is delivered to the display and the callback.
LockHolderInCallback ==
    IF mon \in {"snapshot", "callback"} THEN "monitor" ELSE "none"

\* ProgressTracker.get_progress, lines 156-166, called at line 631: the
\* monitoring thread holds self._lock inside the with-block that builds the
\* snapshot, and no longer when ProgressDisplay.update is called with it
\* (line 632). Every other with-block of the tracker lies within one step.
LockHolder == IF mon = "snapshot" THEN "monitor" ELSE "none"

\* `with self._lock` (lines 153, 157, 169, 173, 177) can be entered.
LockFree == LockHolder = "none"

\* ------------------------------------------- _download_singlethread (lines 399-439)
\* Lines 410 and 645: both checks of the flag before the request is issued.
SinglePrecheck ==
    /\ pc = "s_precheck"
    /\ LockFree
    /\ IF IsCancelled
       THEN /\ success' = FALSE
            /\ pc' = "finish"
            /\ UNCHANGED requested
       ELSE /\ pc' = "s_request"
            /\ requested' = requested + 1
            /\ UNCHANGED success
    /\ UNCHANGED << configVars, sigVars, trackerSet, total_bytes,
                    downloaded_bytes, cancelled, sizeKnown, supports_range, mode,
                    sbody, ranges, workerVars, idx, poolOutcome, dest, parts,
                    inHandler, escaping, histVars, auxVars >>

\* _make_interruptible_request, lines 651-674, for the whole file: requests.get
\* returns or raises, the flag is checked, raise_for_status accepts or rejects.
SingleResponse ==
    /\ pc = "s_request"
    /\ \E ok \in BOOLEAN :
          /\ ok => LockFree
          /\ IF ok /\ ~IsCancelled
             THEN /\ sbody' = Source(srcSize)
                  /\ pc' = "s_open"
                  /\ UNCHANGED success
             ELSE /\ success' = FALSE
                  /\ pc' = "finish"
                  /\ UNCHANGED sbody
    /\ UNCHANGED << configVars, sigVars, trackerSet, total_bytes,
                    downloaded_bytes, cancelled, sizeKnown, supports_range, mode,
                    ranges, workerVars, idx, poolOutcome, dest, parts,
                    inHandler, escaping, histVars, auxVars, requested >>

\* Line 421: open(save_path, "wb") creates or truncates the destination.
SingleOpen ==
    /\ pc = "s_open"
    /\ dest' = File(<< >>)
    /\ pc' = "s_loop"
    /\ UNCHANGED << configVars, sigVars, trackerSet, total_bytes,
                    downloaded_bytes, cancelled, sizeKnown, supports_range, mode,
                    sbody, ranges, workerVars, idx, poolOutcome, parts, success,
                    inHandler, escaping, histVars, auxVars, requested >>

\* Lines 424-427 and 432-433: iter_content yields the next chunk and the flag
\* is checked, or the body is exhausted and the function returns True.
SingleLoop ==
    /\ pc = "s_loop"
    /\ sbody # << >> => LockFree
    /\ IF sbody = << >>
       THEN success' = TRUE /\ pc' = "finish"
       ELSE IF IsCancelled
            THEN success' = FALSE /\ pc' = "finish"
            ELSE pc' = "s_write" /\ UNCHANGED success
    /\ UNCHANGED << configVars, sigVars, trackerSet, total_bytes,
                    downloaded_bytes, cancelled, sizeKnown, supports_range, mode,
                    sbody, ranges, workerVars, idx, poolOutcome, dest, parts,
                    inHandler, escaping, histVars, auxVars, requested >>

\* Lines 428-430: the chunk is written and counted.
SingleWrite ==
    /\ pc = "s_write"
    /\ LockFree
    /\ dest' = File(dest.data \o Chunk(sbody))
    /\ downloaded_bytes' = Update(downloaded_bytes, Len(Chunk(sbody)))
    /\ sbody' = Rest(sbody)
    /\ pc' = "s_loop"
    /\ UNCHANGED << configVars, sigVars, trackerSet, total_bytes, cancelled,
                    sizeKnown, supports_range, mode, ranges, workerVars, idx,
                    poolOutcome, parts, success, inHandler, escaping, histVars, auxVars,
                    requested >>

\* Lines 437-439: the connection fails while the body is read.
SingleStreamError ==
    /\ pc = "s_loop"
    /\ sbody # << >>
    /\ success' = FALSE
    /\ pc' = "finish"
    /\ UNCHANGED << configVars, sigVars, trackerSet, total_bytes,
                    downloaded_bytes, cancelled, sizeKnown, supports_range, mode,
                    sbody, ranges, workerVars, idx, poolOutcome, dest, parts,
                    inHandler, escaping, histVars, auxVars, requested >>

\* ---------------------------------------------- _download_part (lines 527-579)
\* Status codes a ranged request can end with; 0 stands for no response at
\* all: requests.get raised (connection error, timeout).
Statuses == {206, 200, 404, 0}

\* Response.raise_for_status, line 665: raises on a 4xx or 5xx status.
RaiseForStatus(st) == st >= 400

\* Body that comes with status st for "Range: bytes=start-end": a 206 carries
\* the range, a 200 (the Range header was ignored) the whole resource.
ResponseBody(st, S, start, end) ==
    IF st = 206 THEN RangeBody(S, start, end) ELSE Source(S)

\* The worker returns result r.
WorkerReturn(i, r) ==
    /\ wpc' = [wpc EXCEPT ![i] = "done"]
    /\ wres' = [wres EXCEPT ![i] = r]

\* A pool thread takes the work item of part i and starts running it.
WorkerStart(i) ==
    /\ wpc[i] = "pending"
    /\ wpc' = [wpc EXCEPT ![i] = "precheck"]
    /\ UNCHANGED << pc, configVars, sigVars, trackerSet, total_bytes,
                    downloaded_bytes, cancelled, sizeKnown, supports_range, mode,
                    sbody, ranges, wres, wstatus, wbody, wwrote, idx,
                    poolOutcome, dest, parts, success, inHandler, escaping,
                    histVars, auxVars, requested >>

\* Lines 541 and 645: both checks of the flag before the request is issued.
WorkerPrecheck(i) ==
    /\ wpc[i] = "precheck"
    /\ LockFree
    /\ IF IsCancelled
       THEN WorkerReturn(i, FALSE) /\ UNCHANGED requested
       ELSE /\ wpc' = [wpc EXCEPT ![i] = "requesting"]
            /\ requested' = requested + 1
            /\ UNCHANGED wres
    /\ UNCHANGED << pc, configVars, sigVars, trackerSet, total_bytes,
                    downloaded_bytes, cancelled, sizeKnown, supports_range, mode,
                    sbody, ranges, wstatus, wbody, wwrote, idx, poolOutcome,
                    dest, parts, success, inHandler, escaping, histVars, auxVars >>

\* Mutant of Accepts: a 200 with the whole body is taken like a 206.
AcceptsWholeBody(st) == st \in {200, 206}

\* Line 555: a ranged response is accepted only with status 206.
Accepts(st) == st = 206

\* Lines 548-558 with _make_interruptible_request, lines 651-674: the response
\* to "Range: bytes=start-end" arrives (or requests.get raises), the flag is
\* checked, raise_for_status and the test for 206 accept or reject it.

WorkerResponse(i) ==
    /\ wpc[i] = "requesting"
    /\ \E st \in Statuses :
          /\ st # 0 => LockFree
          /\ wstatus' = [wstatus EXCEPT ![i] = st]
          /\ IF st # 0 /\ ~IsCancelled /\ ~RaiseForStatus(st) /\ Accepts(st)
             THEN /\ wpc' = [wpc EXCEPT ![i] = "open"]
                  /\ wbody' = [wbody EXCEPT ![i] =
                        ResponseBody(st, srcSize, ranges[i].start, ranges[i].end)]
                  /\ UNCHANGED wres
             ELSE WorkerReturn(i, FALSE) /\ UNCHANGED wbody
    /\ UNCHANGED << pc, configVars, sigVars, trackerSet, total_bytes,
                    downloaded_bytes, cancelled, sizeKnown, supports_range, mode,
                    sbody, ranges, wwrote, idx, poolOutcome, dest, parts,
                    success, inHandler, escaping, histVars, auxVars, requested >>

\* Mutant of PartPath: every worker uses the part file of part 0.
PartPathShared(part_num) == 0

\* Line 560: part_path = f"{save_path}.part{part_num}", the index of the
\* part file that the worker of part_num writes.
PartPath(part_num) == part_num

\* Lines 560-561: open(part_path, "wb") creates or truncates the part file.
WorkerOpen(i) ==
    /\ wpc[i] = "open"
    /\ parts' = [parts EXCEPT ![PartPath(i)] = File(<< >>)]
    /\ wpc' = [wpc EXCEPT ![i] = "loop"]
    /\ UNCHANGED << pc, configVars, sigVars, trackerSet, total_bytes,
                    downloaded_bytes, cancelled, sizeKnown, supports_range, mode,
                    sbody, ranges, wres, wstatus, wbody, wwrote, idx,
                    poolOutcome, dest, success, inHandler, escaping, histVars, auxVars,
                    requested >>

\* Lines 564-567 and 572-573: iter_content yields the next chunk and the flag
\* is checked, or the body is exhausted and the worker returns True.
WorkerLoop(i) ==
    /\ wpc[i] = "loop"
    /\ wbody[i] # << >> => LockFree
    /\ IF wbody[i] = << >>
       THEN WorkerReturn(i, TRUE)
       ELSE IF IsCancelled
            THEN WorkerReturn(i, FALSE)
            ELSE wpc' = [wpc EXCEPT ![i] = "write"] /\ UNCHANGED wres
    /\ UNCHANGED << pc, configVars, sigVars, trackerSet, total_bytes,
                    downloaded_bytes, cancelled, sizeKnown, supports_range, mode,
                    sbody, ranges, wstatus, wbody, wwrote, idx, poolOutcome,
                    dest, parts, success, inHandler, escaping, histVars, auxVars,
                    requested >>

\* Lines 568-570: the chunk is written and counted.  A part file removed
\* while it is open stays removed: the bytes go to the unlinked file.
WorkerWrite(i) ==
    /\ wpc[i] = "write"
    /\ LockFree
    /\ parts' = [parts EXCEPT ![PartPath(i)] =
                    IF @.exists THEN File(@.data \o Chunk(wbody[i])) ELSE @]
    /\ downloaded_bytes' = Update(downloaded_bytes, Len(Chunk(wbody[i])))
    /\ wwrote' = [wwrote EXCEPT ![i] = @ + Len(Chunk(wbody[i]))]
    /\ wbody' = [wbody EXCEPT ![i] = Rest(wbody[i])]
    /\ wpc' = [wpc EXCEPT ![i] = "loop"]
    /\ UNCHANGED << pc, configVars, sigVars, trackerSet, total_bytes, cancelled,
                    sizeKnown, supports_range, mode, sbody, ranges, wres,
                    wstatus, idx, poolOutcome, dest, success, inHandler,
                    escaping, histVars, auxVars, requested >>

\* Lines 577-579: the connection fails while the body is read.
WorkerStreamError(i) ==
    /\ wpc[i] = "loop"
    /\ wbody[i] # << >>
    /\ WorkerReturn(i, FALSE)
    /\ UNCHANGED << pc, configVars, sigVars, trackerSet, total_bytes,
                    downloaded_bytes, cancelled, sizeKnown, supports_range, mode,
                    sbody, ranges, wstatus, wbody, wwrote, idx, poolOutcome,
                    dest, parts, success, inHandler, escaping, histVars, auxVars,
                    requested >>

\* --------------------------------------- _download_multithread (lines 441-525)
\* Future.cancel on every future: one not yet taken by a pool thread is
\* cancelled, a running or finished one is left as it is.
CancelFutures(w) == [i \in DOMAIN w |-> IF w[i] = "pending" THEN "cancelled" ELSE w[i]]

Terminated(i) == wpc[i] \in {"done", "cancelled"}

\* Lines 452-480: the plan is computed from total_bytes and one work item
\* per range is submitted to the pool.
Submit ==
    /\ pc = "submit"
    /\ ranges' = Ranges(total_bytes, num_threads)
    /\ wpc' = [i \in Workers |-> "pending"]
    /\ idx' = 0
    /\ pc' = "wait"
    /\ UNCHANGED << configVars, sigVars, trackerSet, total_bytes,
                    downloaded_bytes, cancelled, sizeKnown, supports_range, mode,
                    sbody, wres, wstatus, wbody, wwrote, poolOutcome, dest,
                    parts, success, inHandler, escaping, histVars, auxVars, requested >>

\* Mutant of FutureResult: the result of the future is not looked at.
FutureResultIgnored(i) == TRUE

\* Line 497: future.result(), the return value of _download_part for part i.
FutureResult(i) == wres[i]

\* Mutant of FuturesAfterFailure: the futures that have not started are
\* cancelled when a part has failed.
FuturesAfterFailureCancelled(w) ==
    [i \in DOMAIN w |-> IF w[i] = "pending" THEN "cancelled" ELSE w[i]]

\* Lines 498-500 and 511-512: after a result of False the loop is left with
\* `break` and `return False`; no future is cancelled and the flag is not
\* touched, the work items of the other parts stay as they are.
FuturesAfterFailure(w) == w

\* Lines 485-512, one decisive pass of the polling loop on future idx: the
\* future is done and its result is taken, or it is not and the flag is
\* seen set (a pass that sees neither only sleeps).
Wait ==
    /\ pc = "wait"
    /\ wpc[idx] # "done" => LockFree
    /\ wpc[idx] = "done" \/ IsCancelled
    /\ IF wpc[idx] = "done"
       THEN /\ wpc' = IF FutureResult(idx) THEN wpc ELSE FuturesAfterFailure(wpc)
            /\ IF FutureResult(idx) /\ idx < num_threads - 1
               THEN idx' = idx + 1 /\ UNCHANGED << pc, poolOutcome >>
               ELSE /\ poolOutcome' = IF FutureResult(idx) THEN "merge" ELSE "fail"
                    /\ pc' = "pool_exit"
                    /\ UNCHANGED idx
       ELSE /\ wpc' = CancelFutures(wpc)
            /\ poolOutcome' = "fail"
            /\ pc' = "pool_exit"
            /\ UNCHANGED idx
    /\ UNCHANGED << configVars, sigVars, trackerSet, total_bytes,
                    downloaded_bytes, cancelled, sizeKnown, supports_range, mode,
                    sbody, ranges, wres, wstatus, wbody, wwrote, dest, parts,
                    success, inHandler, escaping, histVars, auxVars, requested >>

\* Line 466, leaving the with-block: ThreadPoolExecutor.__exit__ is
\* shutdown(wait=True), which returns once every work item has run or was
\* cancelled.  Then the return, the merge or the pending exception goes on.
PoolExit ==
    /\ pc = "pool_exit"
    /\ \A i \in Workers : Terminated(i)
    /\ IF poolOutcome = "merge"
       THEN pc' = "merge_open" /\ UNCHANGED << success, inHandler >>
       ELSE /\ success' = FALSE
            /\ inHandler' = (poolOutcome = "KI")
            /\ pc' = "finish"
    /\ UNCHANGED << configVars, sigVars, trackerSet, total_bytes,
                    downloaded_bytes, cancelled, sizeKnown, supports_range, mode,
                    sbody, ranges, workerVars, idx, poolOutcome, dest, parts,
                    escaping, histVars, auxVars, requested >>

\* ------------------------------------------------ _merge_parts (lines 581-599)
\* Line 584: open(save_path, "wb").
MergeOpen ==
    /\ pc = "merge_open"
    /\ dest' = File(<< >>)
    /\ idx' = 0
    /\ pc' = "merge"
    /\ UNCHANGED << configVars, sigVars, trackerSet, total_bytes,
                    downloaded_bytes, cancelled, sizeKnown, supports_range, mode,
                    sbody, ranges, workerVars, poolOutcome, parts, success,
                    inHandler, escaping, histVars, auxVars, requested >>

\* Mutant of AppendPart: the part is put in front of the output.
AppendPartInFront(out, p) == p \o out

\* _merge_parts, line 589: the output after part file p is appended to it.
AppendPart(out, p) == out \o p

\* Mutant of PartExists: the existence of the part file is not checked.
PartExistsAlways(p) == TRUE

\* _merge_parts, line 587: os.path.exists(part_path).
PartExists(p) == p.exists

\* Lines 585-595, one turn of the loop: part idx is appended and removed, or
\* it is missing and the merge returns False.
MergeStep ==
    /\ pc = "merge"
    /\ IF PartExists(parts[idx])
       THEN /\ dest' = File(AppendPart(dest.data, parts[idx].data))
            /\ parts' = [parts EXCEPT ![idx] = NoFile]
            /\ IF idx < num_threads - 1
               THEN idx' = idx + 1 /\ UNCHANGED << pc, success >>
               ELSE success' = TRUE /\ pc' = "finish" /\ UNCHANGED idx
       ELSE /\ success' = FALSE
            /\ pc' = "finish"
            /\ UNCHANGED << dest, parts, idx >>
    /\ UNCHANGED << configVars, sigVars, trackerSet, total_bytes,
                    downloaded_bytes, cancelled, sizeKnown, supports_range, mode,
                    sbody, ranges, workerVars, poolOutcome, inHandler, escaping,
                    histVars, auxVars, requested >>

\* ------------------------------------------------- progress callback
\* ProgressDisplay.update, lines 193-197, and ProgressDisplay.finish, lines
\* 233-237: the callback is called inside try / bare except, so whatever it
\* raises stays inside; Propagates tells whether an exception of the
\* callback leaves the method.
PropagatesUncaught(raises) == raises
Propagates(raises) == FALSE

\* What one invocation of the callback can do: raise or not.
CallbackOutcomes == IF callback = "raises" THEN BOOLEAN ELSE {FALSE}

\* ------------------------------------------------- download: finalizing
\* Lines 340-350, or lines 355-360 in the except KeyboardInterrupt clause:
\* the final snapshot is taken and given to ProgressDisplay.finish, which
\* calls the callback once more; a failure goes on to the cleanup. (An
\* exception leaving finish would end in the except Exception clause, lines
\* 362-365: cleanup and False.)
Finish ==
    /\ pc = "finish"
    /\ LockFree
    /\ finalSnapshot' = downloaded_bytes
    /\ \E raises \in CallbackOutcomes :
          /\ cbRaised' = IF raises THEN cbRaised \cup {"final"} ELSE cbRaised
          /\ success' = IF Propagates(raises) THEN FALSE ELSE success
    /\ pc' = IF success' /\ ~inHandler THEN "finally" ELSE "cleanup_dest"
    /\ UNCHANGED << configVars, sigVars, trackerSet, total_bytes,
                    downloaded_bytes, cancelled, sizeKnown, supports_range, mode,
                    sbody, ranges, workerVars, idx, poolOutcome, dest, parts,
                    inHandler, escaping, tokenBeforeWorkers,
                    tokenSetInRanged, cancelCalls, mon, calls, extRemoved,
                    probes, file_size,
                    requested >>

\* _cleanup_partial_files, lines 607-608: the destination is removed.
CleanupDest ==
    /\ pc = "cleanup_dest"
    /\ dest' = NoFile
    /\ idx' = 0
    /\ pc' = "cleanup_parts"
    /\ UNCHANGED << configVars, sigVars, trackerSet, total_bytes,
                    downloaded_bytes, cancelled, sizeKnown, supports_range, mode,
                    sbody, ranges, workerVars, poolOutcome, parts, success,
                    inHandler, escaping, histVars, auxVars, requested >>

\* _cleanup_partial_files, lines 611-615, one turn of the loop over
\* range(num_parts), with num_parts = config.num_threads.
CleanupPart ==
    /\ pc = "cleanup_parts"
    /\ parts' = [parts EXCEPT ![idx] = NoFile]
    /\ IF idx < num_threads - 1
       THEN idx' = idx + 1 /\ UNCHANGED pc
       ELSE pc' = "finally" /\ UNCHANGED idx
    /\ UNCHANGED << configVars, sigVars, trackerSet, total_bytes,
                    downloaded_bytes, cancelled, sizeKnown, supports_range, mode,
                    sbody, ranges, workerVars, poolOutcome, dest, success,
                    inHandler, escaping, histVars, auxVars, requested >>

\* Lines 366-369: the previous handler is reinstalled if it is truthy, the
\* tracker reference is dropped, and download returns `success` (or the
\* KeyboardInterrupt raised inside the except clause leaves it).
Finally ==
    /\ pc = "finally"
    /\ sigHandler' = IF Truthy(origHandler) THEN "orig" ELSE sigHandler
    /\ trackerSet' = FALSE
    /\ pc' = IF escaping THEN "raised" ELSE "done"
    /\ UNCHANGED << configVars, interrupts, total_bytes, downloaded_bytes,
                    cancelled, sizeKnown, supports_range, mode, sbody, ranges,
                    workerVars, idx, poolOutcome, dest, parts, success,
                    inHandler, escaping, histVars, auxVars, requested >>

\* ------------------------------------------------------------- SIGINT
\* A SIGINT can reach the process from the installation of the handler until
\* download has returned. (One that reaches a handler blocked on the lock of
\* the tracker starts a handler that blocks in the same way and changes
\* nothing.)
Deliverable ==
    /\ pc \notin {"install", "finally", "done", "raised", "blocked"}
    /\ interrupts < MaxInterrupts

\* SIGINT is handled by _signal_handler: download installed it (line 284),
\* or an earlier call left it installed and this call put it back as the
\* "previous" handler.
OursInstalled ==
    IF sigHandler = "ours" THEN TRUE ELSE origHandler = "_signal_handler"

\* No fetch worker has started: the fetch function is not entered yet, or
\* the work items of the pool are all still waiting for a thread.
NoWorkerStarted ==
    \/ pc \in {"range_probe", "submit"}
    \/ pc = "wait" /\ \A i \in Workers : wpc[i] = "pending"

\* ProgressTracker.cancel, lines 172-174: the flag after cancel() on a
\* tracker whose flag is c.
CancelToggle(c) == ~c
Cancel(c) == TRUE

\* _signal_handler, lines 253-259: sets the flag of the tracker if there is
\* one, and reinstalls the previous handler if it is truthy.
SignalHandler ==
    /\ Deliverable
    /\ OursInstalled
    /\ trackerSet => LockFree
    /\ interrupts' = interrupts + 1
    /\ cancelled' = IF trackerSet THEN Cancel(cancelled) ELSE cancelled
    /\ cancelCalls' = IF trackerSet THEN cancelCalls + 1 ELSE cancelCalls
    /\ sigHandler' = IF Truthy(origHandler) THEN "orig" ELSE sigHandler
    /\ tokenSetInRanged' =
          (tokenSetInRanged \/ (trackerSet /\ mode = "multi" /\ pc # "submit"))
    /\ tokenBeforeWorkers' =
          (tokenBeforeWorkers \/ (trackerSet /\ NoWorkerStarted))
    /\ UNCHANGED << pc, configVars, trackerSet, total_bytes, downloaded_bytes,
                    sizeKnown, supports_range, mode, sbody, ranges, workerVars,
                    idx, poolOutcome, dest, parts, success, inHandler, escaping,
                    finalSnapshot, mon, cbRaised, calls, extRemoved, probes, file_size,
                    requested >>

\* The previous handler is installed again and is Python's
\* default_int_handler: the SIGINT raises KeyboardInterrupt in the thread
\* that runs download().
RaisesKI ==
    /\ Deliverable
    /\ sigHandler = "orig"
    /\ origHandler = "default_int_handler"
    /\ interrupts' = interrupts + 1

\* _get_file_size, lines 382-383: the bare except swallows the
\* KeyboardInterrupt like a failed request.
KIInSizeProbe ==
    /\ RaisesKI
    /\ pc \in {"size_head", "size_get"}
    /\ IF pc = "size_head"
       THEN /\ pc' = "size_get"
            /\ UNCHANGED << sizeKnown, total_bytes, downloaded_bytes, cancelled,
                            cancelCalls, trackerSet, file_size >>
       ELSE CreateTracker(0)
    /\ UNCHANGED << configVars, sigHandler, supports_range, mode, sbody, ranges,
                    workerVars, idx, poolOutcome, dest, parts, success,
                    inHandler, escaping, histVars, mon, cbRaised, calls,
                    extRemoved, probes, requested >>

\* What an except clause that let KeyboardInterrupt pass would do: the
\* interrupt reaches the except KeyboardInterrupt clause of download.
KIInRangeProbeFatal ==
    /\ RaisesKI
    /\ pc = "range_probe"
    /\ inHandler' = TRUE
    /\ success' = FALSE
    /\ pc' = "finish"
    /\ UNCHANGED << configVars, sigHandler, trackerSet, total_bytes,
                    downloaded_bytes, cancelled, sizeKnown, supports_range, mode,
                    sbody, ranges, workerVars, idx, poolOutcome, dest, parts,
                    escaping, histVars, auxVars, requested >>

\* _check_range_support, lines 396-397: the bare except turns the
\* KeyboardInterrupt into "no range support".
KIInRangeProbe ==
    /\ RaisesKI
    /\ pc = "range_probe"
    /\ ChooseMode(FALSE)
    /\ UNCHANGED << configVars, sigHandler, trackerSet, total_bytes,
                    downloaded_bytes, cancelled, sizeKnown, sbody, ranges,
                    workerVars, idx, poolOutcome, dest, parts, success,
                    inHandler, escaping, histVars, cancelCalls, cbRaised,
                    calls, extRemoved, probes, file_size,
                    requested >>

\* Lines 501-505 and 514-515: a KeyboardInterrupt in the polling loop cancels
\* the futures and is re-raised; it leaves the with-block, whose exit waits
\* for the pool.
KIInWait ==
    /\ RaisesKI
    /\ pc = "wait"
    /\ wpc' = CancelFutures(wpc)
    /\ poolOutcome' = "KI"
    /\ pc' = "pool_exit"
    /\ UNCHANGED << configVars, sigHandler, trackerSet, total_bytes,
                    downloaded_bytes, cancelled, sizeKnown, supports_range, mode,
                    sbody, ranges, wres, wstatus, wbody, wwrote, idx, dest,
                    parts, success, inHandler, escaping, histVars, auxVars, requested >>

\* Lines 354-361: a KeyboardInterrupt raised anywhere else in the try block
\* (the single-stream fetch, lines 435-436; the wait of the executor's exit,
\* which it abandons; the merge; the normal finish and cleanup) reaches the
\* except KeyboardInterrupt clause of download.
KIInTry ==
    /\ RaisesKI
    /\ pc \in {"s_precheck", "s_request", "s_open", "s_loop", "s_write",
               "pool_exit", "merge_open", "merge",
               "finish", "cleanup_dest", "cleanup_parts"}
    /\ ~inHandler
    /\ inHandler' = TRUE
    /\ success' = FALSE
    /\ pc' = "finish"
    /\ UNCHANGED << configVars, sigHandler, trackerSet, total_bytes,
                    downloaded_bytes, cancelled, sizeKnown, supports_range, mode,
                    sbody, ranges, workerVars, idx, poolOutcome, dest, parts,
                    escaping, histVars, auxVars, requested >>

\* A KeyboardInterrupt raised inside the except KeyboardInterrupt clause
\* (lines 355-361) is caught by nothing: after the finally clause it leaves
\* download.
KIInHandler ==
    /\ RaisesKI
    /\ pc \in {"finish", "cleanup_dest", "cleanup_parts"}
    /\ inHandler
    /\ escaping' = TRUE
    /\ pc' = "finally"
    /\ UNCHANGED << configVars, sigHandler, trackerSet, total_bytes,
                    downloaded_bytes, cancelled, sizeKnown, supports_range, mode,
                    sbody, ranges, workerVars, idx, poolOutcome, dest, parts,
                    success, inHandler, histVars, auxVars, requested >>

\* ------------------------------------------------------------ specification
Next ==
    \/ Install
    \/ SizeHead
    \/ SizeGet
    \/ RangeProbe
    \/ SinglePrecheck
    \/ SingleResponse
    \/ SingleOpen
    \/ SingleLoop
    \/ SingleWrite
    \/ SingleStreamError
    \/ Submit
    \/ \E i \in Workers : WorkerStart(i)
    \/ \E i \in Workers : WorkerPrecheck(i)
    \/ \E i \in Workers : WorkerResponse(i)
    \/ \E i \in Workers : WorkerOpen(i)
    \/ \E i \in Workers : WorkerLoop(i)
    \/ \E i \in Workers : WorkerWrite(i)
    \/ \E i \in Workers : WorkerStreamError(i)
    \/ Wait
    \/ PoolExit
    \/ MergeOpen
    \/ MergeStep
    \/ Finish
    \/ CleanupDest
    \/ CleanupPart
    \/ Finally
    \/ SignalHandler
    \/ KIInSizeProbe
    \/ KIInRangeProbe
    \/ KIInWait
    \/ KIInTry
    \/ KIInHandler

Spec == Init /\ [][Next]_vars

\* ------------------------------------------- the size probe in detail
\* The largest Content-Length a response carries; the smallest is -1.
MaxLength == 3

\* What a request of _get_file_size (lines 375-377) does: it fails (raises),
\* or it returns a response whose Content-Length header is absent, empty,
\* not a number, or the number n.
NoNumber == {[kind |-> k, n |-> 0] : k \in {"fail", "absent", "empty", "bad"}}
Responses == NoNumber \cup {[kind |-> "num", n |-> n] : n \in (-1) .. MaxLength}

\* Mutant of Yields: every response that arrived counts as carrying a length.
YieldsIfReturned(r) == r.kind # "fail"

\* Lines 375-383: the request returned (else the bare except passes), its
\* Content-Length is a non-empty string (line 380) and int() parses it (line
\* 381; a ValueError is swallowed by the bare except like a failed request).
Yields(r) ==
    /\ r.kind # "fail"
    /\ r.kind \notin {"absent", "empty"}
    /\ r.kind # "bad"

\* _get_file_size, first pass of the loop (requests.head), response r.
SizeProbeHead ==
    /\ pc = "size_head"
    /\ \E r \in Responses :
          /\ probes' = Append(probes, r)
          /\ IF Yields(r) THEN CreateTracker(r.n)
             ELSE /\ pc' = "size_get"
                  /\ UNCHANGED << sizeKnown, total_bytes, downloaded_bytes,
                                  cancelled, cancelCalls, trackerSet, file_size >>
    /\ UNCHANGED << configVars, sigVars, supports_range, mode, sbody, ranges,
                    workerVars, idx, poolOutcome, dest, parts, success,
                    inHandler, escaping, histVars, mon, cbRaised, calls,
                    extRemoved, requested >>

\* _get_file_size, second pass (streamed requests.get), response r, and the
\* return of 0 after the loop (line 384).
SizeProbeGet ==
    /\ pc = "size_get"
    /\ \E r \in Responses :
          /\ probes' = Append(probes, r)
          /\ CreateTracker(IF Yields(r) THEN r.n ELSE 0)
    /\ UNCHANGED << configVars, sigVars, supports_range, mode, sbody, ranges,
                    workerVars, idx, poolOutcome, dest, parts, success,
                    inHandler, escaping, histVars, mon, cbRaised, calls,
                    extRemoved, requested >>

SizeNext == Install \/ SizeProbeHead \/ SizeProbeGet

\* download up to the creation of the ProgressTracker, for every pair of
\* responses to the two requests of the size probe.
SizeSpec == Init /\ [][SizeNext]_vars

\* ------------------------------------------- fair scheduling
\* The steps of the thread that called download (every request carries the
\* timeout of the configuration, so each of them ends).
Orchestrator ==
    \/ Install
    \/ SizeHead
    \/ SizeGet
    \/ RangeProbe
    \/ SinglePrecheck
    \/ SingleResponse
    \/ SingleOpen
    \/ SingleLoop
    \/ SingleWrite
    \/ SingleStreamError
    \/ Submit
    \/ Wait
    \/ PoolExit
    \/ MergeOpen
    \/ MergeStep
    \/ Finish
    \/ CleanupDest
    \/ CleanupPart
    \/ Finally

\* The steps of the pool thread that runs _download_part for part i.
Worker(i) ==
    /\ i \in Workers
    /\ \/ WorkerStart(i)
       \/ WorkerPrecheck(i)
       \/ WorkerResponse(i)
       \/ WorkerOpen(i)
       \/ WorkerLoop(i)
       \/ WorkerWrite(i)
       \/ WorkerStreamError(i)

\* The SIGINT is delivered while the thread that runs download is inside
\* progress_tracker.get_progress() of line 341 or 357, between the calls of
\* its with-block (lines 157-166), where it holds the lock of the tracker.
\* _signal_handler runs in that thread, on top of the interrupted frame, and
\* calls cancel() (line 256), whose `with self._lock` (line 173) waits for a
\* threading.Lock that only the interrupted frame can release: the handler
\* never returns, the flag is not set, line 259 is not reached.
SignalInGetProgress ==
    /\ Deliverable
    /\ OursInstalled
    /\ trackerSet
    /\ pc = "finish"
    /\ interrupts' = interrupts + 1
    /\ pc' = "blocked"
    /\ UNCHANGED << configVars, sigHandler, trackerSet, total_bytes,
                    downloaded_bytes, cancelled, sizeKnown, supports_range, mode,
                    sbody, ranges, workerVars, idx, poolOutcome, dest, parts,
                    success, inHandler, escaping, histVars, auxVars, requested >>

FairNext == Next \/ SignalInGetProgress

\* Every thread that can take a step eventually takes one; the signals are
\* under no obligation to arrive.
FairSpec ==
    /\ Init
    /\ [][FairNext]_vars
    /\ WF_vars(Orchestrator)
    /\ \A i \in 0 .. (MaxThreads - 1) : WF_vars(Worker(i))

\* ------------------------------------------- a part of several chunks
\* A download of a resource of TailSize bytes, large enough for a part of
\* the plan to take more than one chunk.
TailInit ==
    /\ InitSizes({TailSize})
    /\ callback = "returns"

TailSpec == TailInit /\ [][Next]_vars

\* ------------------------------------------- the monitoring thread
\* ProgressTracker.is_complete, lines 168-170.
IsComplete == downloaded_bytes >= total_bytes

\* _monitor_progress, line 630: the loop condition; when it holds the
\* snapshot is taken (line 631) and given to ProgressDisplay.update.
MonitorCheck ==
    /\ mon = "loop"
    /\ mon' = IF IsComplete \/ IsCancelled THEN "ended" ELSE "snapshot"
    /\ UNCHANGED << pc, configVars, sigVars, trackerSet, total_bytes,
                    downloaded_bytes, cancelled, sizeKnown, supports_range, mode,
                    sbody, ranges, workerVars, idx, poolOutcome, dest, parts,
                    success, inHandler, escaping, histVars, cancelCalls,
                    cbRaised, calls, extRemoved, probes, file_size,
                    requested >>

\* Line 631, get_progress (lines 156-166): the snapshot is built inside the
\* with-block of the lock and returned.
MonitorSnapshot ==
    /\ mon = "snapshot"
    /\ mon' = "callback"
    /\ UNCHANGED << pc, configVars, sigVars, trackerSet, total_bytes,
                    downloaded_bytes, cancelled, sizeKnown, supports_range, mode,
                    sbody, ranges, workerVars, idx, poolOutcome, dest, parts,
                    success, inHandler, escaping, histVars, cancelCalls,
                    cbRaised, calls, extRemoved, probes, file_size,
                    requested >>

\* ProgressDisplay.update, lines 192-202, then the sleep of line 633: the
\* callback returns or raises; an exception that left update would end the
\* thread.
MonitorCallback ==
    /\ mon = "callback"
    /\ \E raises \in CallbackOutcomes :
          /\ cbRaised' = IF raises THEN cbRaised \cup {"periodic"} ELSE cbRaised
          /\ mon' = IF Propagates(raises) THEN "ended" ELSE "loop"
    /\ UNCHANGED << pc, configVars, sigVars, trackerSet, total_bytes,
                    downloaded_bytes, cancelled, sizeKnown, supports_range, mode,
                    sbody, ranges, workerVars, idx, poolOutcome, dest, parts,
                    success, inHandler, escaping, histVars, cancelCalls,
                    calls, extRemoved, probes, file_size,
                    requested >>

\* A download with its monitoring thread and a progress callback that
\* returns, or one that may raise at any of its invocations.
MonInit ==
    /\ InitDownload
    /\ callback \in {"returns", "raises"}

MonNext == Next \/ MonitorCheck \/ MonitorSnapshot \/ MonitorCallback

MonSpec == MonInit /\ [][MonNext]_vars

\* ------------------------------------------- download called again
\* download, lines 273-284, is called once more on the same Downloader after
\* the previous call has returned or raised and its fetch workers have
\* ended, for the same resource and a destination path not used before.
\* What the object and the process keep is kept: the installed handler,
\* self._original_sigint_handler, self._progress_tracker (None since the
\* finally clause) and the flag of the tracker of the previous call.
Outcome ==
    IF pc = "raised" THEN "raised"
    ELSE IF success THEN "success"
    ELSE IF cancelled THEN "cancelled"
    ELSE "failure"

CallAgain ==
    /\ pc \in {"done", "raised"}
    /\ Len(calls) < MaxCalls - 1
    /\ \A i \in Workers : wpc[i] \in {"idle", "done", "cancelled"}
    /\ calls' = Append(calls, Outcome)
    /\ pc' = "install"
    /\ sizeKnown' = FALSE
    /\ supports_range' = FALSE
    /\ mode' = "none"
    /\ sbody' = << >>
    /\ ranges' = << >>
    /\ wpc' = [i \in Workers |-> "idle"]
    /\ wres' = [i \in Workers |-> FALSE]
    /\ wstatus' = [i \in Workers |-> 0]
    /\ wbody' = [i \in Workers |-> << >>]
    /\ wwrote' = [i \in Workers |-> 0]
    /\ idx' = 0
    /\ poolOutcome' = "none"
    /\ dest' = NoFile
    /\ parts' = [i \in Workers |-> NoFile]
    /\ success' = FALSE
    /\ inHandler' = FALSE
    /\ escaping' = FALSE
    /\ finalSnapshot' = -1
    /\ tokenBeforeWorkers' = FALSE
    /\ tokenSetInRanged' = FALSE
    /\ requested' = 0
    /\ mon' = "idle"
    /\ cbRaised' = {}
    /\ total_bytes' = 0
    /\ downloaded_bytes' = 0
    /\ cancelCalls' = 0
    /\ file_size' = 0
    /\ probes' = << >>
    /\ UNCHANGED << configVars, sigVars, trackerSet, cancelled, extRemoved >>

SeqNext == Next \/ CallAgain

SeqSpec == Init /\ [][SeqNext]_vars

\* ---------------------------------------------- the planner and the merge alone
\* The bytes a part file holds after the loop of _download_part, lines
\* 564-570, has written every chunk of a body.
RECURSIVE Drain(_, _)
Drain(data, body) ==
    IF body = << >> THEN data ELSE Drain(data \o Chunk(body), Rest(body))

\* A ranged download in which nothing fails and nothing is cancelled, one
\* step after the other: sizes and thread counts beyond those of Init, and
\* the scenario of 1,000,000 bytes on 4 threads (planned, not fetched).
PlanInit ==
    /\ pc = "p_plan"
    /\ \/ num_threads \in 1..PlanMaxThreads /\ srcSize \in 1..PlanMaxSize
       \/ num_threads = 4 /\ srcSize = 1000000
    /\ origHandler = "default_int_handler"
    /\ callback = "returns"
    /\ sigHandler = "ours"
    /\ interrupts = 0
    /\ trackerSet = TRUE
    /\ total_bytes = srcSize
    /\ downloaded_bytes = 0
    /\ cancelled = FALSE
    /\ sizeKnown = TRUE
    /\ supports_range = TRUE
    /\ mode = "multi"
    /\ sbody = << >>
    /\ ranges = << >>
    /\ wpc = [i \in Workers |-> "idle"]
    /\ wres = [i \in Workers |-> FALSE]
    /\ wstatus = [i \in Workers |-> 0]
    /\ wbody = [i \in Workers |-> << >>]
    /\ wwrote = [i \in Workers |-> 0]
    /\ idx = 0
    /\ poolOutcome = "none"
    /\ dest = NoFile
    /\ parts = [i \in Workers |-> NoFile]
    /\ success = FALSE
    /\ inHandler = FALSE
    /\ escaping = FALSE
    /\ finalSnapshot = -1
    /\ tokenBeforeWorkers = FALSE
    /\ tokenSetInRanged = FALSE
    /\ requested = 0
    /\ cancelCalls = 0
    /\ mon = "idle"
    /\ cbRaised = {}
    /\ calls = << >>
    /\ extRemoved = -1
    /\ file_size = srcSize
    /\ probes = << >>

\* _download_multithread, lines 452-463: the plan.
PlanRanges ==
    /\ pc = "p_plan"
    /\ ranges' = Ranges(total_bytes, num_threads)
    /\ idx' = 0
    /\ pc' = IF srcSize <= PlanMaxSize THEN "p_fetch" ELSE "p_planned"
    /\ UNCHANGED << configVars, sigVars, trackerSet, total_bytes,
                    downloaded_bytes, cancelled, sizeKnown, supports_range, mode,
                    sbody, workerVars, poolOutcome, dest, parts, success,
                    inHandler, escaping, histVars, auxVars, requested >>

\* _download_part, lines 544-573, run to its return True for part idx: the
\* request gets a 206 with the bytes of the range, which are written chunk
\* by chunk to the part file and counted.
PlanFetch ==
    /\ pc = "p_fetch"
    /\ LET body == ResponseBody(206, srcSize, ranges[idx].start, ranges[idx].end)
       IN  /\ parts' = [parts EXCEPT ![idx] = File(Drain(<< >>, body))]
           /\ downloaded_bytes' = Update(downloaded_bytes, Len(body))
           /\ wwrote' = [wwrote EXCEPT ![idx] = Len(body)]
    /\ wstatus' = [wstatus EXCEPT ![idx] = 206]
    /\ wpc' = [wpc EXCEPT ![idx] = "done"]
    /\ wres' = [wres EXCEPT ![idx] = TRUE]
    /\ requested' = requested + 1
    /\ IF idx < num_threads - 1
       THEN idx' = idx + 1 /\ UNCHANGED pc
       ELSE pc' = "merge_open" /\ UNCHANGED idx
    /\ UNCHANGED << configVars, sigVars, trackerSet, total_bytes, cancelled,
                    sizeKnown, supports_range, mode, sbody, ranges, wbody,
                    poolOutcome, dest, success, inHandler, escaping, histVars, auxVars >>

PlanNext ==
    \/ PlanRanges
    \/ PlanFetch
    \/ MergeOpen
    \/ MergeStep

PlanSpec == PlanInit /\ [][PlanNext]_vars

\* ---------------------------------------------- a part file goes missing
\* Between the return of its worker and its turn in the merge a part file
\* is removed by something outside download (another process, a second
\* download to the same path): the case of lines 591-593.
ExternalRemovePart(i) ==
    /\ pc \in {"merge_open", "merge"}
    /\ extRemoved = -1
    /\ parts[i].exists
    /\ parts' = [parts EXCEPT ![i] = NoFile]
    /\ extRemoved' = i
    /\ UNCHANGED << pc, configVars, sigVars, trackerSet, total_bytes,
                    downloaded_bytes, cancelled, sizeKnown, supports_range, mode,
                    sbody, ranges, workerVars, idx, poolOutcome, dest, success,
                    inHandler, escaping, histVars, cancelCalls, mon, cbRaised,
                    calls, probes, file_size, requested >>

\* The ranged download in which nothing fails, up to its return, with a
\* part file that may go missing before the merge reaches it.
MergeNext ==
    \/ PlanNext
    \/ \E i \in Workers : ExternalRemovePart(i)
    \/ Finish
    \/ CleanupDest
    \/ CleanupPart
    \/ Finally

MergeSpec == PlanInit /\ [][MergeNext]_vars

\* ================================================================== claims
Returned == pc = "done"

NoPartFiles == \A i \in Workers : ~parts[i].exists

AllTerminated == \A i \in Workers : wpc[i] \in {"idle", "done", "cancelled"}

Planned == pc \in {"p_fetch", "p_planned", "merge_open", "merge", "finish"}

\* The offsets a range covers.
Covers(r) == r.start .. r.end

\* C1: when download returns success the destination file exists and holds
\* the complete remote resource; when it returns failure there is no file at
\* the destination path.
C1_AllOrNothing ==
    Returned =>
        IF success THEN dest = File(Source(srcSize)) ELSE ~dest.exists

\* C2: when the flag was set during a ranged download and the cancellation
\* was observed (download returned failure), then once download has returned
\* and every worker has ended, neither the destination nor a part file exists.
C2_CancelledRangedLeavesNothing ==
    (tokenSetInRanged /\ Returned /\ ~success /\ AllTerminated)
        => (~dest.exists /\ NoPartFiles)

\* C3: at every return of download no part file exists.
C3_NoPartFileAtReturn == Returned => NoPartFiles

\* C4: the ranges of a plan are ordered by index, pairwise disjoint, and
\* their union is exactly 0..S-1, for every S >= 1 and N >= 1.
C4_RangesPartition ==
    Planned =>
        /\ DOMAIN ranges = 0..(num_threads - 1)
        /\ \A i \in 0..(num_threads - 2) :
              /\ ranges[i].start <= ranges[i + 1].start
              /\ ranges[i].end < ranges[i + 1].start
        /\ \A i, j \in DOMAIN ranges :
              i # j => Covers(ranges[i]) \cap Covers(ranges[j]) = {}
        /\ UNION {Covers(ranges[i]) : i \in DOMAIN ranges} = 0..(srcSize - 1)

C4_Witness ==
    /\ Planned
    /\ num_threads > 1
    /\ srcSize > num_threads
    /\ srcSize % num_threads # 0
    /\ Cardinality(Covers(ranges[num_threads - 1])) > srcSize \div num_threads

\* C5: the plan has exactly N ranges; with part = S div N, range i < N-1 is
\* [i*part, (i+1)*part - 1] and the last one is [(N-1)*part, S-1]; for
\* S = 1,000,000 and N = 4 the ranges are [0,249999], [250000,499999],
\* [500000,749999], [750000,999999].
C5_RangeFormula ==
    Planned =>
        LET N == num_threads
            part == srcSize \div N
        IN  /\ DOMAIN ranges = 0..(N - 1)
            /\ \A i \in 0..(N - 2) :
                  ranges[i] = [start |-> i * part, end |-> (i + 1) * part - 1]
            /\ ranges[N - 1] = [start |-> (N - 1) * part, end |-> srcSize - 1]
            /\ (srcSize = 1000000 /\ N = 4) =>
                  ranges = [i \in 0..3 |->
                              [start |-> i * 250000, end |-> i * 250000 + 249999]]

C5_Witness == pc = "p_planned" /\ srcSize = 1000000 /\ num_threads = 4

\* C6: when every ranged worker has succeeded against a server that returns
\* exactly the requested bytes, the merged destination is byte-identical to
\* the source, for every N up to 16 and every S, S < N included.
C6_MergeIsSource ==
    (pc = "finish" /\ success) => dest = File(Source(srcSize))

C6_Witness ==
    /\ pc = "finish"
    /\ success
    /\ num_threads = 16
    /\ srcSize < num_threads
    /\ dest.data = Source(srcSize)

\* C7: the parallel path is taken if and only if the probe reports range
\* support and the worker count is above 1; otherwise only the single fetch
\* runs: no ranged worker is spawned and at most one GET is issued.
C7_ModeSelection ==
    /\ mode # "none" =>
          (mode = "multi" <=> (supports_range /\ num_threads > 1))
    /\ (mode = "multi" /\ pc # "submit") =>
          \A i \in Workers : wpc[i] # "idle"
    /\ mode # "multi" =>
          /\ \A i \in Workers : wpc[i] = "idle"
          /\ requested <= 1

C7_Witness ==
    /\ Returned
    /\ success
    /\ mode = "single"
    /\ ~supports_range
    /\ num_threads > 1
    /\ requested = 1

\* C8: a ranged worker whose response has a status other than 206 returns
\* failure, writes no part file and counts no byte, and download then
\* returns failure.
C8_Non206Fails ==
    \A i \in Workers :
        (wstatus[i] \notin {0, 206}) =>
            /\ wpc[i] = "done"
            /\ ~wres[i]
            /\ wwrote[i] = 0
            /\ ~parts[i].exists
            /\ Returned => ~success

C8_Witness ==
    /\ Returned
    /\ ~success
    /\ \E i \in Workers : wstatus[i] = 200
    /\ \E i \in Workers : wstatus[i] = 206 /\ wres[i]

\* C9: when the flag is set before any fetch worker has started, no worker
\* issues a request or writes a byte, and download returns failure with a
\* final downloaded_bytes of 0 and no destination or part file.
C9_CancelledBeforeStart ==
    tokenBeforeWorkers =>
        /\ requested = 0
        /\ downloaded_bytes = 0
        /\ \A i \in Workers : wwrote[i] = 0
        /\ ~dest.exists
        /\ NoPartFiles
        /\ Returned => (~success /\ finalSnapshot = 0)

C9_Witness ==
    /\ tokenBeforeWorkers
    /\ Returned
    /\ mode = "multi"
    /\ \A i \in Workers : wpc[i] = "done"

\* C10: downloaded_bytes never decreases, and when the size is known it
\* never exceeds total_bytes, under every interleaving of the workers.
C10_ProgressMonotoneBounded ==
    [][/\ downloaded_bytes' >= downloaded_bytes
       /\ sizeKnown' => downloaded_bytes' <= total_bytes']_vars

C10_Witness ==
    /\ mode = "multi"
    /\ sizeKnown
    /\ downloaded_bytes = total_bytes
    /\ \A i \in Workers : wwrote[i] > 0

\* ------------------------------------------------------------ claims C11-C20
\* C11: an interrupt delivered at any moment between the start of download
\* and its return, the probing included, sets the cancellation flag of this
\* download, and the download then returns failure with no destination and
\* no part file left.
C11_InterruptCancels ==
    (interrupts > 0) =>
        /\ cancelled
        /\ Returned => (~success /\ ~dest.exists /\ NoPartFiles)

\* C12: within one download the cancellation flag is irreversible and
\* setting it is idempotent: once is_cancelled is true it stays true, and a
\* further cancel() changes nothing of the tracker.
C12_TokenIrreversible ==
    [][/\ (trackerSet /\ trackerSet' /\ cancelled) => cancelled'
       /\ (cancelCalls' > cancelCalls) => cancelled'
       /\ (cancelled /\ cancelCalls' > cancelCalls) =>
             /\ total_bytes' = total_bytes
             /\ downloaded_bytes' = downloaded_bytes]_vars

C12_Witness ==
    /\ cancelled
    /\ cancelCalls >= 2
    /\ trackerSet
    /\ mode = "multi"
    /\ \E i \in Workers : wwrote[i] > 0

C14_AlwaysReturnsBoolean ==
    /\ pc # "raised"
    /\ (Returned /\ \E i \in Workers : wpc[i] = "done" /\ ~wres[i]) => ~success

\* C15: a failure of the size probe or of the range probe never fails the
\* download: every step that ends a probe leads on towards the fetch, a
\* size probe that failed or found nothing yields the unknown size
\* (total_bytes 1), a range probe that failed or found nothing yields "range
\* not supported" and the single-stream fetch; an exception raised inside a
\* probe (here a KeyboardInterrupt) counts as its failure.
C15_ProbeFailureNotFatal ==
    [][(pc \in {"size_head", "size_get", "range_probe"} /\ pc' # pc) =>
          /\ pc' \in {"size_get", "range_probe", "submit", "s_precheck"}
          /\ ~success' /\ ~inHandler' /\ ~escaping'
          /\ (pc' = "range_probe" /\ ~sizeKnown') => total_bytes' = 1
          /\ (pc = "size_get" /\ interrupts' > interrupts) => ~sizeKnown'
          /\ (pc = "range_probe" /\ interrupts' > interrupts) => ~supports_range'
          /\ (pc = "range_probe" /\ ~supports_range') =>
                (mode' = "single" /\ pc' = "s_precheck")]_vars

C15_Witness ==
    /\ origHandler = "default_int_handler"
    /\ interrupts = 3
    /\ cancelCalls = 0
    /\ ~sizeKnown
    /\ total_bytes = 1
    /\ ~supports_range
    /\ mode = "single"
    /\ num_threads > 1
    /\ Returned
    /\ success

\* C16: a progress callback that raises, at a periodic or at the final
\* invocation, has no effect on the transfer: the step in which it raises
\* changes neither the result, the bytes counted, the destination, the part
\* files nor the workers, download goes on from the final invocation as
\* its result alone decides, and the monitoring thread goes on with its
\* loop.
C16_CallbackFailureHarmless ==
    [][/\ (cbRaised' # cbRaised \/ (mon = "callback" /\ mon' # mon)
           \/ (pc = "finish" /\ pc' # pc /\ interrupts' = interrupts)) =>
             /\ success' = success
             /\ downloaded_bytes' = downloaded_bytes
             /\ cancelled' = cancelled
             /\ dest' = dest
             /\ parts' = parts
             /\ workerVars' = workerVars
             /\ escaping' = escaping
       /\ (pc = "finish" /\ pc' # pc /\ interrupts' = interrupts) =>
             pc' = IF success /\ ~inHandler THEN "finally" ELSE "cleanup_dest"
       /\ (mon = "callback" /\ mon' # mon) => (mon' = "loop" /\ pc' = pc)]_vars

C16_Witness ==
    /\ cbRaised = {"periodic", "final"}
    /\ Returned
    /\ success
    /\ mode = "multi"
    /\ dest.exists
    /\ Len(dest.data) = srcSize
    /\ NoPartFiles

\* C17: when both probes fail the single-stream fetch is taken with
\* total_bytes = 1, every byte written to the destination is counted, and
\* the final snapshot's downloaded_bytes is the number of bytes written,
\* which may exceed total_bytes.
C17_UnknownSizeSingleStream ==
    (mode # "none" /\ ~sizeKnown /\ ~supports_range) =>
        /\ mode = "single"
        /\ total_bytes = 1
        /\ dest.exists => Len(dest.data) = downloaded_bytes
        /\ finalSnapshot # -1 => finalSnapshot = downloaded_bytes
        /\ (Returned /\ success) => finalSnapshot = srcSize

C17_Witness ==
    /\ ~sizeKnown
    /\ ~supports_range
    /\ mode = "single"
    /\ num_threads > 1
    /\ total_bytes = 1
    /\ Returned
    /\ success
    /\ Len(dest.data) = 3
    /\ finalSnapshot = 3

\* C18: when the orchestrator has seen the cancellation flag set while
\* waiting, no work item is left pending and its failure result is handed
\* to download without waiting for the fetch workers that are still
\* running: the return is never held up by a running worker.
C18_ReturnsWithoutWaiting ==
    (pc = "pool_exit" /\ poolOutcome = "fail" /\ cancelled) =>
        /\ \A i \in Workers : wpc[i] # "pending"
        /\ ENABLED PoolExit

\* C19: the merge starts only after every fetch worker of the plan has
\* terminated: in no state does the merge read or remove a part file while
\* some worker is still running; and the part file of index i is created
\* and written by worker i alone.
C19_MergeAfterWorkers ==
    [][/\ (pc' \in {"merge_open", "merge"}) =>
             \A i \in Workers : wpc'[i] = "done"
       /\ \A i \in Workers :
             (parts'[i] # parts[i] /\ pc = "merge") =>
                 /\ idx = i
                 /\ ~parts'[i].exists
                 /\ \A j \in Workers : wpc[j] = "done"
       /\ \A i \in Workers :
             (parts'[i] # parts[i] /\ parts'[i].exists) =>
                 /\ wpc[i] \in {"open", "write"}
                 /\ wpc'[i] = "loop"
                 /\ \A j \in Workers \ {i} : wpc'[j] = wpc[j]]_vars

C19_Witness ==
    /\ pc = "merge"
    /\ num_threads = 2
    /\ idx = 1
    /\ ~parts[0].exists
    /\ parts[1].exists
    /\ \A i \in Workers : wpc[i] = "done" /\ wwrote[i] > 0

\* The bytes of the parts 0..k-1 of the plan, one after the other.
RECURSIVE PartsUpTo(_)
PartsUpTo(k) ==
    IF k = 0 THEN << >>
    ELSE PartsUpTo(k - 1)
            \o RangeBody(srcSize, ranges[k - 1].start, ranges[k - 1].end)

\* C20: the merge appends the part files in ascending index order 0..N-1
\* and removes each right after appending it; when the part of some index
\* is missing the merge stops at that index with the parts before it
\* appended and those after it untouched, and download returns failure
\* with no destination file left.
C20_MergeAscendingOrStop ==
    /\ (pc = "merge") =>
          /\ dest.data = PartsUpTo(idx)
          /\ \A j \in Workers : (j < idx) => ~parts[j].exists
          /\ \A j \in Workers : (j >= idx /\ j # extRemoved) => parts[j].exists
    /\ (pc = "finish" /\ success) =>
          /\ extRemoved = -1
          /\ dest = File(PartsUpTo(num_threads))
          /\ NoPartFiles
    /\ (pc = "finish" /\ ~success) =>
          /\ idx = extRemoved
          /\ dest = File(PartsUpTo(idx))
          /\ \A j \in Workers : (j > idx) => parts[j].exists
    /\ Returned => (success <=> extRemoved = -1)
    /\ (Returned /\ ~success) => (~dest.exists /\ NoPartFiles)

C20_Witness ==
    /\ Returned
    /\ ~success
    /\ num_threads = 3
    /\ srcSize = 9
    /\ extRemoved = 1
    /\ finalSnapshot = srcSize
    /\ ~dest.exists
    /\ NoPartFiles

\* ------------------------------------------------------------ claims C21-C30
\* C21: when a ranged worker has failed, whatever its index, whatever the
\* reason and whatever the other workers do, the merge is never performed,
\* the destination is never opened for writing, and download returns
\* failure.
C21_FailedWorkerNoMerge ==
    (\E i \in Workers : wpc[i] = "done" /\ ~wres[i]) =>
        /\ pc \notin {"merge_open", "merge"}
        /\ ~dest.exists
        /\ poolOutcome # "merge"
        /\ Returned => ~success

C21_Witness ==
    /\ Returned
    /\ ~success
    /\ ~cancelled
    /\ interrupts = 0
    /\ num_threads = 2
    /\ wpc[0] = "done" /\ wres[0] /\ wwrote[0] > 0
    /\ wpc[1] = "done" /\ ~wres[1] /\ wstatus[1] = 404

\* C22 (as stated): once the cancellation flag is set no fetch worker
\* passes a further check: it starts no request and no chunk write other
\* than the one whose check had already passed, it is never stopped from
\* outside, and it then returns failure.
C22_TailThenFailure ==
    [][\A i \in Workers :
          /\ (cancelled /\ wpc'[i] = "write") => wpc[i] = "write"
          /\ (cancelled /\ wpc'[i] = "requesting") => wpc[i] = "requesting"
          /\ (wpc'[i] = "cancelled") => wpc[i] \in {"pending", "cancelled"}
          /\ (cancelled /\ wpc[i] # "done" /\ wpc'[i] = "done") =>
                ~wres'[i]]_vars

\* C22 (amended): as above, but the worker returns failure unless the body
\* of its response is exhausted: a worker whose last chunk had passed the
\* check writes it and returns success.
C22_CooperativeTail ==
    [][\A i \in Workers :
          /\ (cancelled /\ wpc'[i] = "write") => wpc[i] = "write"
          /\ (cancelled /\ wpc'[i] = "requesting") => wpc[i] = "requesting"
          /\ (wpc'[i] = "cancelled") => wpc[i] \in {"pending", "cancelled"}
          /\ (cancelled /\ wpc[i] # "done" /\ wpc'[i] = "done") =>
                (wres'[i] <=> (wpc[i] = "loop" /\ wbody[i] = << >>))]_vars

C22_Witness ==
    /\ cancelled
    /\ \E i \in Workers :
          /\ wpc[i] = "done"
          /\ ~wres[i]
          /\ wwrote[i] = ChunkSize
          /\ wbody[i] # << >>
    /\ \E i \in Workers : wpc[i] = "done" /\ wres[i] /\ wwrote[i] > 0

\* The bytes written by the workers of the parts 0..k-1.
RECURSIVE SumWrote(_)
SumWrote(k) == IF k = 0 THEN 0 ELSE SumWrote(k - 1) + wwrote[k - 1]

\* C23: no progress update is lost: under every interleaving of the
\* workers' increments, once all fetch workers have terminated
\* downloaded_bytes is the sum of the lengths of the chunks they wrote.
C23_NoLostUpdate ==
    (mode = "multi" /\ \A i \in Workers : wpc[i] \in {"done", "cancelled"}) =>
        downloaded_bytes = SumWrote(num_threads)

C23_Witness ==
    /\ mode = "multi"
    /\ num_threads = 2
    /\ \A i \in Workers : wpc[i] = "done" /\ wwrote[i] > 0
    /\ wwrote[0] # wwrote[1]
    /\ downloaded_bytes = wwrote[0] + wwrote[1]
    /\ pc = "wait"

\* C24: the monitoring loop has terminated by the time download returns, on
\* every outcome, so no periodic snapshot follows the final one.
C24_LoopStoppedAtReturn ==
    Returned => mon \notin {"loop", "snapshot", "callback"}

\* The phase of the orchestrator at each of its positions: 1 Probing (with
\* the installation of the handler before it), 2 Planning, 3 Fetching,
\* 4 Merging, 5 Finalizing, 6 the terminal states, 7 an exception leaving
\* download, which is no terminal state of the state machine.
Phase ==
    CASE pc \in {"install", "size_head", "size_get", "range_probe"} -> 1
      [] pc = "submit" -> 2
      [] pc \in {"wait", "pool_exit", "s_precheck", "s_request", "s_open",
                 "s_loop", "s_write"} -> 3
      [] pc \in {"merge_open", "merge"} -> 4
      [] pc \in {"finish", "cleanup_dest", "cleanup_parts", "finally"} -> 5
      [] pc = "done" -> 6
      [] OTHER -> 7

\* C25: every invocation passes through Probing, Planning, Fetching, Merging
\* and Finalizing in this order and ends in exactly one terminal state,
\* Succeeded or Failed/Cancelled; Merging is entered only on the ranged path
\* after all ranged workers succeeded; no fetch worker starts before both
\* probes have completed.
C25_PhaseOrder ==
    [][/\ Phase' >= Phase
       /\ Phase' # 7
       /\ (Phase' = 6 /\ Phase < 6) => Phase = 5
       /\ (Phase' = 4 /\ Phase # 4) =>
             /\ Phase = 3
             /\ mode = "multi"
             /\ \A i \in Workers : wpc[i] = "done" /\ wres[i]
       /\ \A i \in Workers :
             (wpc[i] = "pending" /\ wpc'[i] \notin {"pending", "cancelled"}) =>
                 Phase >= 3]_vars

\* C26: on a failed or cancelled download the final snapshot is taken after
\* every fetch worker has terminated: its downloaded_bytes is the number of
\* bytes the workers wrote, and no increment follows it.
C26_FinalSnapshotAfterWorkers ==
    (finalSnapshot # -1 /\ ~success) =>
        /\ AllTerminated
        /\ finalSnapshot = downloaded_bytes
        /\ mode = "multi" => finalSnapshot = SumWrote(num_threads)

\* C27: under fair scheduling, with every HTTP operation completing or timing
\* out, every invocation of download eventually returns and nothing waits
\* forever; stated in its weakest reading, in which an invocation that an
\* exception leaves has ended too.
C27_EventuallyReturns == <>(Returned \/ pc = "raised")

\* C28: the progress sink never blocks the transfer: while an invocation of
\* the callback from the monitoring loop has not returned, the monitoring
\* thread does not hold the lock of the tracker, and every fetch worker can
\* take its next step: check the flag, write its chunk and count it, finish.
C28_SinkNeverBlocks ==
    mon = "callback" =>
        /\ LockHolder = "none"
        /\ \A i \in Workers :
              /\ wpc[i] = "precheck" => ENABLED WorkerPrecheck(i)
              /\ wpc[i] = "requesting" => ENABLED WorkerResponse(i)
              /\ wpc[i] = "open" => ENABLED WorkerOpen(i)
              /\ wpc[i] = "loop" => ENABLED WorkerLoop(i)
              /\ wpc[i] = "write" => ENABLED WorkerWrite(i)
        /\ pc = "s_write" => ENABLED SingleWrite
        /\ pc = "s_loop" => ENABLED SingleLoop

C28_Witness ==
    /\ mon = "callback"
    /\ mode = "multi"
    /\ num_threads = 2
    /\ \A i \in Workers : wpc[i] = "done" /\ wres[i] /\ wwrote[i] > 0
    /\ downloaded_bytes = srcSize
    /\ Returned
    /\ success
    /\ dest.data = Source(srcSize)

\* C29: the resolved size is the Content-Length of the header-only request
\* when that request succeeds and carries one, and the GET is then not
\* issued; otherwise the GET is issued and its Content-Length is the size;
\* when neither yields a length the size is 0 and the tracker is created
\* with total_bytes 1.
C29_SizeResolution ==
    trackerSet =>
        /\ Len(probes) \in {1, 2}
        /\ probes[1].kind = "num" => (Len(probes) = 1 /\ file_size = probes[1].n)
        /\ probes[1].kind # "num" =>
              /\ Len(probes) = 2
              /\ probes[2].kind = "num" => file_size = probes[2].n
              /\ probes[2].kind # "num" => (file_size = 0 /\ total_bytes = 1)
        /\ total_bytes = (IF file_size <= 0 THEN 1 ELSE file_size)

C29_Witness ==
    /\ trackerSet
    /\ Len(probes) = 2
    /\ probes[1].kind = "absent"
    /\ probes[2] = [kind |-> "num", n |-> 2]
    /\ file_size = 2
    /\ total_bytes = 2

\* C30: cleanup never races with a worker: on every failure and cancellation
\* path of the ranged download all fetch workers have terminated before
\* _cleanup_partial_files removes the destination and the part files, and
\* none is still running once download has returned.
C30_CleanupAfterWorkers ==
    (mode = "multi" /\ pc \in {"cleanup_dest", "cleanup_parts", "finally", "done"}) =>
        \A i \in Workers : Terminated(i)

\* ------------------------------------------------------------ claims C31-C33
\* C31: after download has returned or raised, on every path, the SIGINT
\* handler of the process is the one that was installed before the call,
\* whatever it was, and _signal_handler is no longer installed.
C31_HandlerRestored ==
    pc \in {"done", "raised"} => (sigHandler = "orig" /\ ~OursInstalled)

\* C32: a failure of a ranged worker that is no cancellation never sets the
\* flag, which only _signal_handler sets: the other workers are not
\* cancelled and keep fetching until they finish on their own, and download
\* returns failure only after all of them have terminated.
C32_FailureDoesNotCancel ==
    /\ cancelled => (interrupts > 0 /\ cancelCalls > 0)
    /\ (interrupts = 0 /\ mode = "multi" /\ \E i \in Workers : wpc[i] = "done" /\ ~wres[i]) =>
          /\ ~cancelled
          /\ \A i \in Workers : wpc[i] # "cancelled"
          /\ \A i \in Workers : wpc[i] = "pending" => ENABLED WorkerStart(i)
          /\ \A i \in Workers : wpc[i] = "write" => ENABLED WorkerWrite(i)
          /\ pc \in {"finish", "cleanup_dest", "cleanup_parts", "finally", "done"} =>
                \A i \in Workers : wpc[i] = "done"
          /\ Returned => ~success

C32_Witness ==
    /\ interrupts = 0
    /\ num_threads = 2
    /\ Returned
    /\ ~success
    /\ ~cancelled
    /\ wpc[0] = "done" /\ ~wres[0] /\ wstatus[0] = 404
    /\ wpc[1] = "done" /\ wres[1] /\ wwrote[1] > 0

\* C33: _signal_handler is one-shot: the first interrupt of a download sets
\* the flag (when the tracker exists) and puts the previous handler back, so
\* that the second goes to the previous handler; when that one raises
\* KeyboardInterrupt in the thread of download, download still returns
\* False after its cleanup.
C33_OneShotHandler ==
    [][/\ (interrupts' = interrupts + 1 /\ OursInstalled) =>
             /\ trackerSet => cancelled'
             /\ sigHandler' = "orig"
       /\ (pc' = "done" /\ origHandler = "default_int_handler" /\ interrupts' >= 2) =>
             (~success' /\ ~dest'.exists)]_vars

====
